---- MODULE Spec2Model ----
(***************************************************************************)
(* Model of calculate_support_resistance (src/app.py, lines 80-105): the   *)
(* rolling-extremum / dedup / ward-clustering / level-selection pipeline,  *)
(* together with what the function does to the bar table it is handed.     *)
(*                                                                         *)
(* A behaviour is one bar table and one pair of parameters, on which the   *)
(* function is invoked again and again.  A table with a "waves" column is  *)
(* a sequence of rows [idx, waves, pol]: idx is the row's index label,     *)
(* waves the value of the column 'waves', pol the value of the column 0.   *)
(***************************************************************************)
EXTENDS Integers, Sequences, FiniteSets, TLC

\* ------------------------------------------------------------------ bounds
MaxBars == 3
MaxPrice == 2
MaxWindow == 2
MaxClusters == 2

\* The float NaN that rolling() yields while the window is not yet full.
NaN == -1

\* ----------------------------------------------------------------- helpers
Max(S) == CHOOSE x \in S : \A y \in S : y <= x
Min(S) == CHOOSE x \in S : \A y \in S : x <= y
Range(s) == {s[i] : i \in 1..Len(s)}
Reverse(s) == [i \in 1..Len(s) |-> s[Len(s) + 1 - i]]

RECURSIVE Sum(_, _)
Sum(x, C) == IF C = {} THEN 0
             ELSE LET i == CHOOSE j \in C : TRUE IN x[i] + Sum(x, C \ {i})

RECURSIVE RowsWhere(_, _, _)
\* Boolean-mask selection t[mask]: the rows of t at the positions in keep,
\* in table order, from position i on.
RowsWhere(t, keep, i) ==
    IF i > Len(t) THEN <<>>
    ELSE (IF i \in keep THEN <<t[i]>> ELSE <<>>) \o RowsWhere(t, keep, i + 1)

\* ------------------------------------------------------- Extremum Extractor
\* df.High.rolling(w).max(): NaN until the window is full (min_periods = w).
RollingMax(col, w) ==
    [i \in 1..Len(col) |->
        IF i < w THEN NaN ELSE Max({col[j] : j \in (i - w + 1)..i})]

\* df.Low.rolling(w).min()
RollingMin(col, w) ==
    [i \in 1..Len(col) |->
        IF i < w THEN NaN ELSE Min({col[j] : j \in (i - w + 1)..i})]

\* pd.concat([temp, pd.Series(np.zeros(n) + p)], axis=1): both operands carry
\* the RangeIndex 0..n-1 that reset_index gave the table.
ConcatPolarity(temp, p) ==
    [i \in 1..Len(temp) |-> [idx |-> i - 1, waves |-> temp[i], pol |-> p]]

RECURSIVE DropDuplicatesFrom(_, _, _)
DropDuplicatesFrom(t, i, seen) ==
    IF i > Len(t) THEN <<>>
    ELSE IF t[i].waves \in seen THEN DropDuplicatesFrom(t, i + 1, seen)
    ELSE <<t[i]>> \o DropDuplicatesFrom(t, i + 1, seen \cup {t[i].waves})

\* A plausible slip: only a repeat of the immediately preceding row is dropped.
DropConsecutiveDuplicates(t) ==
    RowsWhere(t, {i \in 1..Len(t) : i = 1 \/ t[i].waves # t[i - 1].waves}, 1)

\* DataFrame.drop_duplicates('waves'): a row is dropped when its 'waves' value
\* occurred in ANY earlier row (keep='first'); NaN counts as equal to NaN.
DropDuplicates(t) == DropDuplicatesFrom(t, 1, {})

MaxWaves(d, w) == DropDuplicates(ConcatPolarity(RollingMax(d.High, w), 1))
MinWaves(d, w) == DropDuplicates(ConcatPolarity(RollingMin(d.Low, w), -1))

\* --------------------------------------------------------- Wave Deduplicator
IsMonotonicIncreasing(t) == \A i \in 2..Len(t) : t[i - 1].idx <= t[i].idx

\* The labels that a max row and a min row share.
SharedLabels(mx, mn) == {r.idx : r \in Range(mx)} \cap {r.idx : r \in Range(mn)}

\* The labels whose two rows sort_index may leave in either order: its default
\* kind='quicksort' is not stable.  An index that is already monotonic is not
\* sorted at all, and the rows keep the order of the concatenation.
TiedLabels(d, w) ==
    IF IsMonotonicIncreasing(MaxWaves(d, w) \o MinWaves(d, w)) THEN {}
    ELSE SharedLabels(MaxWaves(d, w), MinWaves(d, w))

RECURSIVE SortFrom(_, _, _, _)
SortFrom(t, l, last, ties) ==
    IF l > last THEN <<>>
    ELSE LET rows == RowsWhere(t, {i \in 1..Len(t) : t[i].idx = l}, 1)
         IN  (IF l \in ties THEN Reverse(rows) ELSE rows)
             \o SortFrom(t, l + 1, last, ties)

\* pd.concat([max_waves, min_waves]).sort_index(); ties is the set of labels at
\* which the sort puts the min row before the max row.
SortIndex(t, ties) ==
    IF IsMonotonicIncreasing(t) THEN t
    ELSE SortFrom(t, 0, Max({r.idx : r \in Range(t)}), ties)

PolarityFilterAll(t) == t

\* waves[waves[0] != waves[0].shift()]: a row survives when its polarity differs
\* from that of the row right before it in the merged table (the first always).
PolarityFilter(t) ==
    RowsWhere(t, {i \in 1..Len(t) : i = 1 \/ t[i].pol # t[i - 1].pol}, 1)

\* A plausible slip: fillna(0) in place of dropna().
FillNa(t) ==
    [i \in 1..Len(t) |-> IF t[i].waves = NaN THEN [t[i] EXCEPT !.waves = 0] ELSE t[i]]

\* .dropna(): the rows whose 'waves' is NaN go.
DropNa(t) == RowsWhere(t, {i \in 1..Len(t) : t[i].waves # NaN}, 1)

\* Lines 84-93: the wave table handed to the clusterer.
Waves(d, w, ties) ==
    DropNa(PolarityFilter(SortIndex(MaxWaves(d, w) \o MinWaves(d, w), ties)))

\* ----------------------------------------------------------- Level Clusterer
\* Line 95: the 'waves' values, each paired with the constant coordinate 1, which
\* adds nothing to any distance.
WaveValues(t) == [i \in 1..Len(t) |-> t[i].waves]

\* Ward distance between clusters A and B of positions of x, squared and up to
\* the factor 2, as the fraction WardNum / WardDen:
\*   |A||B| / (|A|+|B|) * (mean(A) - mean(B))^2.
WardNum(x, A, B) ==
    (Sum(x, A) * Cardinality(B) - Sum(x, B) * Cardinality(A))
  * (Sum(x, A) * Cardinality(B) - Sum(x, B) * Cardinality(A))
WardDen(A, B) == Cardinality(A) * Cardinality(B) * (Cardinality(A) + Cardinality(B))
WardLess(x, p, q) ==
    WardNum(x, p[1], p[2]) * WardDen(q[1], q[2])
  < WardNum(x, q[1], q[2]) * WardDen(p[1], p[2])

\* One agglomeration step from partition P: merge a pair of clusters at least
\* Ward distance.  Which of several pairs at the same distance is merged is left
\* open: every such merge is a successor.
WardStep(x, P) ==
    LET pairs == {p \in P \X P : p[1] # p[2]}
        best  == {p \in pairs : \A q \in pairs : ~WardLess(x, q, p)}
    IN  {(P \ {p[1], p[2]}) \cup {p[1] \cup p[2]} : p \in best}

RECURSIVE Agglomerate(_, _, _)
Agglomerate(x, S, k) ==
    IF \A P \in S : Cardinality(P) <= k THEN S
    ELSE Agglomerate(x, UNION {WardStep(x, P) : P \in S}, k)

\* The numberings of the clusters of P by 0..|P|-1.
Labelings(P) ==
    {f \in [P -> 0..(Cardinality(P) - 1)] : \A A, B \in P : A # B => f[A] # f[B]}

\* AgglomerativeClustering(n_clusters=k, linkage='ward').fit_predict(x): the label
\* arrays it can yield.  The numbering of the clusters is the library's affair.
FitPredict(x, k) ==
    UNION {{[i \in 1..Len(x) |-> f[CHOOSE C \in P : i \in C]] : f \in Labelings(P)}
           : P \in Agglomerate(x, {{{i} : i \in 1..Len(x)}}, k)}

\* fit_predict raises ValueError on fewer than 2 samples and on more clusters
\* than samples.
FitRaises(t, k) == Len(t) < 2 \/ k > Len(t)

\* waves['clusters'] = cluster.labels_
AssignClusters(t, lab) ==
    [i \in 1..Len(t) |->
        [idx |-> t[i].idx, waves |-> t[i].waves, pol |-> t[i].pol, clusters |-> lab[i]]]

\* ------------------------------------------------------------ Level Selector
ClusterIds(t) == {t[i].clusters : i \in 1..Len(t)}

\* The 'waves' values of the rows of t that cluster c holds.
ClusterValues(t, c) == {t[i].waves : i \in {j \in 1..Len(t) : t[j].clusters = c}}

\* idxmax of one group: the index LABEL of the first row holding the maximum.
IdxMax(t, c) ==
    LET pos == {i \in 1..Len(t) : t[i].clusters = c /\ t[i].waves = Max(ClusterValues(t, c))}
    IN  t[Min(pos)].idx

\* waves.groupby('clusters')['waves'].idxmax(): one label per cluster id, in
\* ascending cluster id.
GroupbyIdxMax(t) == [j \in 1..Cardinality(ClusterIds(t)) |-> IdxMax(t, j - 1)]

RECURSIVE LocFrom(_, _, _)
LocFrom(t, keys, j) ==
    IF j > Len(keys) THEN <<>>
    ELSE RowsWhere(t, {i \in 1..Len(t) : t[i].idx = keys[j]}, 1) \o LocFrom(t, keys, j + 1)

\* waves.loc[keys]: for each key in turn, EVERY row carrying that index label.
Loc(t, keys) == LocFrom(t, keys, 1)

\* Line 103, waves2.waves.drop_duplicates(keep='first', inplace=True), shortens
\* the Series object that waves2.waves hands out, never the frame waves2: the
\* frame that line 105 reads is the one line 101 built.
\* Line 105: waves2.reset_index().waves
ReturnedLevels(t2) == WaveValues(t2)

\* --------------------------------------------------------------- the bar table
RangeIndex == [kind |-> "RangeIndex", name |-> "None"]

\* The name of the column reset_index inserts: the name of the index, and for a
\* nameless index "index", or "level_0" when "index" is taken.
InsertedColumn(d) ==
    IF d.index.name # "None" THEN d.index.name
    ELSE IF "index" \notin Range(d.columns) THEN "index" ELSE "level_0"

\* reset_index raises ValueError (cannot insert, already exists) and leaves the
\* table as it was.
ResetIndexRaises(d) == InsertedColumn(d) \in Range(d.columns)

\* df.reset_index(inplace=True): the index becomes column 0 of the CALLER's
\* table, which gets a RangeIndex.
ResetIndex(d) ==
    [d EXCEPT !.index = RangeIndex, !.columns = <<InsertedColumn(d)>> \o @]

\* Line 102, df.index = date: the index is set back; the inserted column stays.
RestoreIndex(d, date) == [d EXCEPT !.index = date]

\* ----------------------------------------------------------------- the state
VARIABLES
    df,                   \* the caller's bar table: index, columns, High, Low
    rolling_wave_length,  \* the arguments of every invocation
    num_clusters,
    ties,                 \* how this build's sort_index orders rows of one label
    labels_,              \* cluster.labels_ as this build yields it, <<>> before a fit
    max_waves,            \* the locals of the latest invocation
    min_waves,
    waves,
    waves2,
    result,               \* the outcome of the latest invocation
    first_result          \* the outcome of the first invocation

vars == <<df, rolling_wave_length, num_clusters, ties, labels_,
          max_waves, min_waves, waves, waves2, result, first_result>>

NoResult == [kind |-> "none", levels |-> <<>>]
Raised == [kind |-> "ValueError", levels |-> <<>>]
Returned(levels) == [kind |-> "levels", levels |-> levels]

Bar == {b \in [High : 1..MaxPrice, Low : 1..MaxPrice] : b.Low <= b.High}
BarSeqs == UNION {[1..n -> Bar] : n \in 1..MaxBars}

\* The ten bars of the scenario, with its window and number of clusters.
Scenario ==
    [High |-> <<10, 12, 11, 15, 14, 16, 13, 17, 12, 18>>,
     Low  |-> <<9, 10, 9, 13, 12, 14, 11, 15, 10, 16>>,
     rolling_wave_length |-> 2,
     num_clusters |-> 2]

\* The table as the script hands it over (lines 57-59): the provider's date
\* index, named "Date", turned into strings, and the OHLCV columns.
Table(high, low) ==
    [index   |-> [kind |-> "dates", name |-> "Date"],
     columns |-> <<"Open", "High", "Low", "Close", "Volume">>,
     High    |-> high,
     Low     |-> low]

Init ==
    /\ \/ /\ \E bars \in BarSeqs :
               df = Table([i \in 1..Len(bars) |-> bars[i].High],
                          [i \in 1..Len(bars) |-> bars[i].Low])
          /\ rolling_wave_length \in 1..MaxWindow
          /\ num_clusters \in 1..MaxClusters
       \/ /\ df = Table(Scenario.High, Scenario.Low)
          /\ rolling_wave_length = Scenario.rolling_wave_length
          /\ num_clusters = Scenario.num_clusters
    /\ ties \in SUBSET TiedLabels(df, rolling_wave_length)
    /\ labels_ = <<>>
    /\ max_waves = <<>>
    /\ min_waves = <<>>
    /\ waves = <<>>
    /\ waves2 = <<>>
    /\ result = NoResult
    /\ first_result = NoResult

Record(r) ==
    /\ result' = r
    /\ first_result' = IF first_result.kind = "none" THEN r ELSE first_result

\* The call ends at line 82: reset_index raises.
CallResetIndexRaises ==
    /\ ResetIndexRaises(df)
    /\ Record(Raised)
    /\ max_waves' = <<>> /\ min_waves' = <<>> /\ waves' = <<>> /\ waves2' = <<>>
    /\ UNCHANGED <<df, rolling_wave_length, num_clusters, ties, labels_>>

\* The call ends at line 99: fit_predict raises, with the table left as line 82
\* made it.
CallFitRaises ==
    /\ ~ResetIndexRaises(df)
    /\ LET w == Waves(df, rolling_wave_length, ties)
       IN  /\ FitRaises(w, num_clusters)
           /\ waves' = w
    /\ df' = ResetIndex(df)
    /\ max_waves' = MaxWaves(df, rolling_wave_length)
    /\ min_waves' = MinWaves(df, rolling_wave_length)
    /\ waves2' = <<>>
    /\ Record(Raised)
    /\ UNCHANGED <<rolling_wave_length, num_clusters, ties, labels_>>

\* The call runs to line 105 and returns the levels.
CallReturns ==
    /\ ~ResetIndexRaises(df)
    /\ LET w == Waves(df, rolling_wave_length, ties)
       IN  /\ ~FitRaises(w, num_clusters)
           /\ \E lab \in (IF labels_ = <<>> THEN FitPredict(WaveValues(w), num_clusters)
                          ELSE {labels_}) :
                 /\ labels_' = lab
                 /\ waves' = AssignClusters(w, lab)
    /\ max_waves' = MaxWaves(df, rolling_wave_length)
    /\ min_waves' = MinWaves(df, rolling_wave_length)
    /\ waves2' = Loc(waves', GroupbyIdxMax(waves'))
    /\ df' = RestoreIndex(ResetIndex(df), df.index)
    /\ Record(Returned(ReturnedLevels(waves2')))
    /\ UNCHANGED <<rolling_wave_length, num_clusters, ties>>

Next == CallResetIndexRaises \/ CallFitRaises \/ CallReturns

Spec == Init /\ [][Next]_vars

\* ------------------------------------------------------------------ claims
Levels == result.levels
Prices == Range(df.High) \cup Range(df.Low)
\* Some invocation got past line 82 and built the wave tables.
Extracted == max_waves # <<>>
FlatSeries == \E v \in Prices : \A i \in 1..Len(df.High) : df.High[i] = v /\ df.Low[i] = v
MaxTemp == ConcatPolarity(RollingMax(df.High, rolling_wave_length), 1)
MinTemp == ConcatPolarity(RollingMin(df.Low, rolling_wave_length), -1)

\* C1: whenever the function returns, the number of returned levels is at most
\* num_clusters.
C1_CountBound == result.kind = "levels" => Len(Levels) <= num_clusters

\* C2: whenever the function returns, no two entries of the returned sequence
\* are equal.
C2_Distinct ==
    result.kind = "levels" =>
        \A i, j \in 1..Len(Levels) : i # j => Levels[i] # Levels[j]

\* C3: every returned level is the High or the Low of some bar of the input;
\* none is the NaN of a window not yet full, a zero, or another made-up value.
C3_ValueMembership ==
    result.kind = "levels" => \A i \in 1..Len(Levels) : Levels[i] \in Prices

\* C3, its case: levels were returned from a table whose first rolling windows
\* were not yet full.
C3_Witness ==
    /\ result.kind = "levels"
    /\ Len(Levels) >= 1
    /\ rolling_wave_length >= 2
    /\ \E i \in 1..Len(MaxTemp) : MaxTemp[i].waves = NaN

\* C4: on the ten bars of the scenario, with window 2 and 2 clusters, the
\* function returns exactly 2 levels, different from each other, both of them
\* values of the High/Low arrays.
C4_Scenario ==
    (/\ df.High = Scenario.High
     /\ df.Low = Scenario.Low
     /\ rolling_wave_length = Scenario.rolling_wave_length
     /\ num_clusters = Scenario.num_clusters
     /\ result.kind = "levels")
    => (/\ Len(Levels) = 2
        /\ Levels[1] # Levels[2]
        /\ Levels[1] \in Prices
        /\ Levels[2] \in Prices)

\* C5: an invocation with num_clusters greater than the number of distinct wave
\* values left after deduplication ends in an error and returns no levels.
C5_DistinctValuesError ==
    (result.kind # "none" /\ num_clusters > Cardinality(Range(WaveValues(waves))))
    => result.kind = "ValueError"

\* The only check on num_clusters that an invocation runs into is the library's:
\* more clusters than ROWS of the wave table (rows of equal value counted each)
\* is an error.
TooFewRowsError ==
    (result.kind # "none" /\ num_clusters > Len(waves)) => result.kind = "ValueError"

\* C6: every invocation after the first, on the same table with the same
\* arguments, has the outcome of the first: the same levels in the same order.
C6_Determinism == first_result.kind # "none" => result = first_result

\* C7: an invocation that returns leaves the caller's table as it was: the same
\* index, the same columns, the same values.
C7_TableUnchanged == [][result'.kind = "levels" => df' = df]_vars

\* C8: the selected rows are one row per cluster, in ascending cluster id, each
\* holding the maximum 'waves' value of its cluster.
C8_OnePerClusterMax ==
    result.kind = "levels" =>
        /\ Len(waves2) = Cardinality(ClusterIds(waves))
        /\ \A j \in 1..Len(waves2) :
              /\ waves2[j].clusters = j - 1
              /\ waves2[j].waves = Max(ClusterValues(waves, j - 1))

\* The wave table is in bar-index order.
InIndexOrder == \A i \in 2..Len(waves) : waves[i - 1].idx <= waves[i].idx
\* No two consecutive rows of the wave table have the same polarity.
PolarityAlternates == \A i \in 2..Len(waves) : waves[i - 1].pol # waves[i].pol

NotAsJustBefore(t) ==
    RowsWhere(t, {i \in 1..Len(t) : i = 1 \/ t[i].waves # t[i - 1].waves}, 1)
\* The rows of t that differ in value from every row before them.
NotAsAnyBefore(t) ==
    RowsWhere(t, {i \in 1..Len(t) : \A j \in 1..(i - 1) : t[j].waves # t[i].waves}, 1)

\* C10 as stated: in each single-polarity series a row is dropped if and only if
\* its value equals that of the row right before it.
C10_ConsecutiveOnly ==
    Extracted =>
        /\ max_waves = NotAsJustBefore(MaxTemp)
        /\ min_waves = NotAsJustBefore(MinTemp)

\* C10 as amended: in each single-polarity series a row is dropped if and only
\* if its value equals that of SOME earlier row of the series, next to it or
\* not; the rows left keep their order.
C10_FirstOccurrenceOnly ==
    Extracted =>
        /\ max_waves = NotAsAnyBefore(MaxTemp)
        /\ min_waves = NotAsAnyBefore(MinTemp)

\* C10, its case: a rolling value comes back after a different value and the
\* later row is not among the rows kept.
C10_Witness ==
    /\ Extracted
    /\ \E i \in 3..Len(MaxTemp) :
          /\ MaxTemp[i].waves # MaxTemp[i - 1].waves
          /\ \E j \in 1..(i - 2) : MaxTemp[j].waves = MaxTemp[i].waves
          /\ \A r \in Range(max_waves) : r.idx # MaxTemp[i].idx

====
